---- MODULE Spec2Model ----
(***************************************************************************)
(* Model of scraper.py: the virtualized-list discovery loop                *)
(* (get_all_site_ids), the per-item pull (pull_one_site with               *)
(* slugify_site_name, get_site_name, download_csv, file_ok,                *)
(* is_site_complete) and the resumable run loop of main, over a disk that  *)
(* holds the artifact files, progress.json and site_name_map.json.         *)
(*                                                                         *)
(* Strings are sequences of one-character strings.  A run of main is a     *)
(* sequence of steps (pc); the process can be killed between any two       *)
(* steps and main started again on the disk it left behind.                *)
(***************************************************************************)
EXTENDS Integers, Sequences, FiniteSets, TLC

(***************************************************************************)
(* Bounds of the model.                                                    *)
(***************************************************************************)
\* identifiers the remote list can expose: 1..MaxId
MaxId == 3
\* stop_after_consecutive_misses, the configured threshold of this model
Threshold == 2
\* most entries one read of the rendered window returns
MaxRead == 1
\* longest string slugify_site_name is given
MaxLen == 3
\* most applications of slugify_site_name in a row
MaxApplied == 2
\* longest duration fmt_seconds is given, in seconds
MaxSeconds == 3700
\* fmt_seconds takes a float: durations are multiples of 1/Fraction second
Fraction == 2

(***************************************************************************)
(* Program constants.                                                      *)
(***************************************************************************)
\* while stable_rounds < 6
StableLimit == 6
\* progress = {"last_site_id": None}
NoId == -1
\* Optional[str] None
NoName == <<"None">>

\* SPECS: the keys of the three PullSpec entries, in manifest order
SPECS == <<"incidence", "mortality", "survival">>

Universe == 1..MaxId

(***************************************************************************)
(* slugify_site_name, step by step as the code computes it.                *)
(***************************************************************************)
LowerCase == <<"a","b","c","d","e","f","g","h","i","j","k","l","m",
               "n","o","p","q","r","s","t","u","v","w","x","y","z">>
UpperCase == <<"A","B","C","D","E","F","G","H","I","J","K","L","M",
               "N","O","P","Q","R","S","T","U","V","W","X","Y","Z">>
Digits == {"0","1","2","3","4","5","6","7","8","9"}
Whitespace == {" "}
Quotes == {"'"}

IsAlnum(c) == c \in Digits \/ \E i \in 1..26 : LowerCase[i] = c

LowerCharSwap(c) ==
    IF \E i \in 1..26 : UpperCase[i] = c
    THEN LowerCase[CHOOSE i \in 1..26 : UpperCase[i] = c]
    ELSE IF \E i \in 1..26 : LowerCase[i] = c
    THEN UpperCase[CHOOSE i \in 1..26 : LowerCase[i] = c]
    ELSE c

\* str.lower() on one character
LowerChar(c) ==
    IF \E i \in 1..26 : UpperCase[i] = c
    THEN LowerCase[CHOOSE i \in 1..26 : UpperCase[i] = c]
    ELSE c

RECURSIVE LStrip(_, _)
LStrip(s, cs) == IF s # <<>> /\ Head(s) \in cs THEN LStrip(Tail(s), cs) ELSE s

RECURSIVE RStrip(_, _)
RStrip(s, cs) ==
    IF s # <<>> /\ s[Len(s)] \in cs THEN RStrip(SubSeq(s, 1, Len(s) - 1), cs) ELSE s

\* str.strip() / str.strip(chars)
Strip(s, cs) == RStrip(LStrip(s, cs), cs)

Lower(s) == [i \in 1..Len(s) |-> LowerChar(s[i])]

\* s.replace("&", " and ")
RECURSIVE ReplaceAmp(_)
ReplaceAmp(s) ==
    IF s = <<>> THEN <<>>
    ELSE IF Head(s) = "&" THEN <<" ", "a", "n", "d", " ">> \o ReplaceAmp(Tail(s))
    ELSE <<Head(s)>> \o ReplaceAmp(Tail(s))

\* re.sub of the apostrophe class by ""; of its three characters (typographic
\* apostrophe, straight apostrophe, backtick) the alphabet of this model has
\* the straight one
DropQuotes(s) == SelectSeq(s, LAMBDA c : c \notin Quotes)

\* re.sub(r"[^a-z0-9]+", "_", s): every maximal run outside [a-z0-9] becomes one "_"
RECURSIVE CollapseNonAlnum(_)
CollapseNonAlnum(s) ==
    IF s = <<>> THEN <<>>
    ELSE IF IsAlnum(Head(s)) THEN <<Head(s)>> \o CollapseNonAlnum(Tail(s))
    ELSE IF Len(s) > 1 /\ ~IsAlnum(s[2]) THEN CollapseNonAlnum(Tail(s))
    ELSE <<"_">> \o CollapseNonAlnum(Tail(s))

\* re.sub(r"_+", "_", s)
RECURSIVE CollapseUnderscores(_)
CollapseUnderscores(s) ==
    IF s = <<>> THEN <<>>
    ELSE IF Head(s) = "_" /\ Len(s) > 1 /\ s[2] = "_" THEN CollapseUnderscores(Tail(s))
    ELSE <<Head(s)>> \o CollapseUnderscores(Tail(s))

slugify_site_name(name) ==
    Strip(CollapseUnderscores(CollapseNonAlnum(DropQuotes(ReplaceAmp(
        Lower(Strip(name, Whitespace)))))), {"_"})

(***************************************************************************)
(* fmt_seconds; the duration t is in units of 1/Fraction second.           *)
(***************************************************************************)
DigitChars == <<"0", "1", "2", "3", "4", "5", "6", "7", "8", "9">>

\* format of a non-negative int with "d"
RECURSIVE Dec(_)
Dec(n) == IF n < 10 THEN <<DigitChars[n + 1]>>
          ELSE Dec(n \div 10) \o <<DigitChars[(n % 10) + 1]>>

NoPad(n) == Dec(n)

\* format with "02d"
Pad02(n) == IF n < 10 THEN <<"0">> \o Dec(n) ELSE Dec(n)

\* int(seconds) of a positive float: truncation
int(t) == t \div Fraction

fmt_seconds(t) ==
    IF t <= 0 THEN <<"0", "s">>
    ELSE LET s0 == int(t)
             h == s0 \div 3600
             rem == s0 % 3600
             m == rem \div 60
             s == rem % 60
         IN  IF h > 0 THEN Dec(h) \o <<"h">> \o Pad02(m) \o <<"m">> \o Pad02(s) \o <<"s">>
             ELSE IF m > 0 THEN Dec(m) \o <<"m">> \o Pad02(s) \o <<"s">>
             ELSE Dec(s) \o <<"s">>

(***************************************************************************)
(* What the remote page can show for an item: the title attribute of the   *)
(* selection label (NoName: attribute absent) and its inner text.          *)
(***************************************************************************)
PageTitles == {NoName, <<" ">>, <<" ", "A">>}
PageTexts == {<<>>, <<"a", "'">>, <<"!">>}
\* the labels (title, inner text) of the pages of this model
PageLabels ==
    {<<NoName, <<>> >>, << <<" ">>, <<"a", "'">> >>, << <<" ", "A">>, <<"!">> >>,
     <<NoName, <<"!">> >>}

\* get_site_name: None on selector timeout, else the stripped title, else the
\* stripped inner text, else None
get_site_name(selOK, title, txt) ==
    IF ~selOK THEN NoName
    ELSE IF title # NoName /\ Strip(title, Whitespace) # <<>>
         THEN Strip(title, Whitespace)
    ELSE IF Strip(txt, Whitespace) # <<>> THEN Strip(txt, Whitespace)
    ELSE NoName


\* every name get_site_name can return for these pages, and their slugs
SiteNames == {get_site_name(TRUE, t, x) : t \in PageTitles, x \in PageTexts} \ {NoName}
Slugs == {slugify_site_name(n) : n \in SiteNames}

(***************************************************************************)
(* The artifact files: os.path.join(out_dir, spec.key, f"{slug}.csv") is   *)
(* the pair <<key, slug>>; a file is absent, present with size 0, or       *)
(* present with data.                                                      *)
(***************************************************************************)
Paths == {<<SPECS[i], s>> : i \in 1..Len(SPECS), s \in Slugs}
FileStates == {"absent", "empty", "data"}
\* what dl.save_as can leave at out_path
SavedContents == {"data"}

out_path(i, slug) == <<SPECS[i], slug>>

exists(fs, path) == fs[path] # "absent"
getsize(fs, path) == IF fs[path] = "data" THEN 1 ELSE 0

file_ok_big(fs, path) == exists(fs, path) /\ getsize(fs, path) > 1

\* os.path.exists(path) and os.path.getsize(path) > 0
file_ok(fs, path) == exists(fs, path) /\ getsize(fs, path) > 0

is_site_complete_any(fs, slug) == \E i \in 1..Len(SPECS) : file_ok(fs, out_path(i, slug))

\* is_site_complete: every spec's file is ok
is_site_complete(fs, slug) == \A i \in 1..Len(SPECS) : file_ok(fs, out_path(i, slug))

download_csv_fresh_dir(fs, path, outcome) ==
    IF outcome = "button_timeout" THEN [ok |-> FALSE, files |-> fs]
    ELSE IF outcome = "download_timeout" THEN [ok |-> FALSE, files |-> fs]
    ELSE [ok |-> TRUE,
          files |-> [p \in DOMAIN fs |->
                        IF p = path THEN "data"
                        ELSE IF p[1] = path[1] THEN "absent" ELSE fs[p]]]

\* download_csv under one outcome of the page: the export button never shows,
\* the download never starts, or the download is saved to out_path
download_csv(fs, path, outcome) ==
    IF outcome = "button_timeout" THEN [ok |-> FALSE, files |-> fs]
    ELSE IF outcome = "download_timeout" THEN [ok |-> FALSE, files |-> fs]
    ELSE [ok |-> TRUE,
          files |-> [fs EXCEPT ![path] = IF outcome = "saved_empty" THEN "empty" ELSE "data"]]

KindOutcomes ==
    {"nav_timeout", "button_timeout", "download_timeout"}
        \cup {IF c = "data" THEN "saved" ELSE "saved_empty" : c \in SavedContents}

setdefault_overwrite(m, k, v) == [x \in DOMAIN m \cup {k} |-> IF x = k THEN v ELSE m[x]]

\* dict.setdefault(slug, site_name)
setdefault(m, k, v) == IF k \in DOMAIN m THEN m ELSE m @@ (k :> v)

\* the call download_csv(page, out_path) of line 174, logged
Download(acc, i, site_id, slug, out) ==
    LET path == out_path(i, slug)
    IN  [ok_any |-> acc.ok_any \/ download_csv(acc.files, path, out[i]).ok,
         files |-> download_csv(acc.files, path, out[i]).files,
         navs |-> Append(acc.navs, <<SPECS[i], site_id>>),
         dls |-> Append(acc.dls, path),
         saved |-> IF download_csv(acc.files, path, out[i]).ok
                   THEN acc.saved \cup {path} ELSE acc.saved,
         refetch |-> acc.refetch \/ file_ok(acc.files, path)]

KindStepNoCredit(acc, i, site_id, slug, out) ==
    IF file_ok(acc.files, out_path(i, slug)) THEN acc
    ELSE IF out[i] = "nav_timeout"
    THEN [acc EXCEPT !.navs = Append(@, <<SPECS[i], site_id>>)]
    ELSE Download(acc, i, site_id, slug, out)

KindStepAlways(acc, i, site_id, slug, out) ==
    Download([acc EXCEPT !.ok_any = @ \/ file_ok(acc.files, out_path(i, slug))],
             i, site_id, slug, IF i \in DOMAIN out THEN out ELSE (i :> "saved") @@ out)

\* one pass of "for spec in SPECS" in pull_one_site (lines 161-175); acc carries
\* ok_any, the files, and the log of this call: the page.goto calls, the
\* download_csv calls, the files saved, and whether download_csv was called
\* for a file that was ok at that moment
KindStep(acc, i, site_id, slug, out) ==
    IF file_ok(acc.files, out_path(i, slug))
    THEN [acc EXCEPT !.ok_any = TRUE]
    ELSE IF out[i] = "nav_timeout"
    THEN [acc EXCEPT !.navs = Append(@, <<SPECS[i], site_id>>)]
    ELSE Download(acc, i, site_id, slug, out)

RECURSIVE KindLoopAbort(_, _, _, _, _)
KindLoopAbort(acc, i, site_id, slug, out) ==
    IF i > Len(SPECS) THEN acc
    ELSE IF ~file_ok(acc.files, out_path(i, slug)) /\ out[i] # "saved" THEN acc
    ELSE KindLoopAbort(KindStep(acc, i, site_id, slug, out), i + 1, site_id, slug, out)

RECURSIVE KindLoop(_, _, _, _, _)
KindLoop(acc, i, site_id, slug, out) ==
    IF i > Len(SPECS) THEN acc
    ELSE KindLoop(KindStep(acc, i, site_id, slug, out), i + 1, site_id, slug, out)

\* slugify_site_name on the names of this model, computed once
SlugOf == [n \in SiteNames |-> slugify_site_name(n)]

FailedAsSkip(site_id, fs, nm) ==
    [ok |-> TRUE, name_map |-> nm, files |-> fs, name |-> NoName,
     navs |-> <<<<SPECS[1], site_id>>>>, dls |-> <<>>, saved |-> {}, refetch |-> FALSE]

\* return False of lines 146 and 150
Failed(site_id, fs, nm) ==
    [ok |-> FALSE, name_map |-> nm, files |-> fs, name |-> NoName,
     navs |-> <<<<SPECS[1], site_id>>>>, dls |-> <<>>, saved |-> {}, refetch |-> FALSE]

\* return ok_any of line 177, with the log
Finish(fin, nm, site_name) ==
    [ok |-> fin.ok_any, name_map |-> nm, files |-> fin.files, name |-> site_name,
     navs |-> fin.navs, dls |-> fin.dls, saved |-> fin.saved, refetch |-> fin.refetch]

\* lines 155-177, once the name is known and recorded
PullNamed(site_id, fs, nm, site_name, slug, out) ==
    IF is_site_complete(fs, slug)
    THEN [ok |-> TRUE, name_map |-> nm, files |-> fs, name |-> site_name,
          navs |-> <<<<SPECS[1], site_id>>>>, dls |-> <<>>, saved |-> {},
          refetch |-> FALSE]
    ELSE Finish(KindLoop([ok_any |-> FALSE, files |-> fs,
                          navs |-> <<<<SPECS[1], site_id>>>>, dls |-> <<>>,
                          saved |-> {}, refetch |-> FALSE],
                         1, site_id, slug, out),
                nm, site_name)

\* lines 152-153: slug = slugify_site_name(site_name);
\* name_map.setdefault(slug, site_name)
RecordName(nm, site_name) == setdefault(nm, SlugOf[site_name], site_name)

\* pull_one_site(page, site_id, out_dir, name_map) under the page's behaviour:
\* gotoOK (first navigation), selOK/title/txt (the selection label), out (per
\* kind: what its navigation and export do).  Returns the result, the new
\* name_map and files, and the log of the call.
pull_one_site(site_id, fs, nm, gotoOK, selOK, title, txt, out) ==
    IF ~gotoOK THEN Failed(site_id, fs, nm)
    ELSE IF get_site_name(selOK, title, txt) = NoName THEN Failed(site_id, fs, nm)
    ELSE PullNamed(site_id, fs,
                   RecordName(nm, get_site_name(selOK, title, txt)),
                   get_site_name(selOK, title, txt),
                   SlugOf[get_site_name(selOK, title, txt)], out)

(***************************************************************************)
(* get_all_site_ids: one read of the rendered window is a sequence of      *)
(* identifiers (duplicates and any order allowed).                         *)
(***************************************************************************)
Reads == UNION {[1..n -> Universe] : n \in 0..MaxRead}

\* for x in ids: seen.add(x)
RECURSIVE AddAll(_, _)
AddAll(S, ids) == IF ids = <<>> THEN S ELSE AddAll(S \cup {Head(ids)}, Tail(ids))

NextStableNoReset(stable, before, after) ==
    IF after = before THEN stable + 1 ELSE stable

\* stable_rounds = stable_rounds + 1 if after == before else 0
NextStable(stable, before, after) == IF after = before THEN stable + 1 ELSE 0

KeepReadingShort(stable) == stable < StableLimit - 1

\* the loop condition: while stable_rounds < 6
KeepReading(stable) == stable < StableLimit

\* one pass of the while loop (lines 100-121) on the read ids
ReadStep(st, ids) ==
    [seen |-> AddAll(st.seen, ids),
     stable_rounds |-> NextStable(st.stable_rounds, Cardinality(st.seen),
                                  Cardinality(AddAll(st.seen, ids)))]

\* the whole while loop on the reads the list yields: sched, then nothing new
RECURSIVE ReadLoop(_, _)
ReadLoop(st, sched) ==
    IF ~KeepReading(st.stable_rounds) THEN st
    ELSE IF sched = <<>> THEN ReadLoop(ReadStep(st, <<>>), <<>>)
    ELSE ReadLoop(ReadStep(st, Head(sched)), Tail(sched))

\* sorted(seen)
RECURSIVE sorted(_)
sorted(S) ==
    IF S = {} THEN <<>>
    ELSE LET m == CHOOSE x \in S : \A y \in S : x <= y
         IN  <<m>> \o sorted(S \ {m})

\* list.index(x): position of the first occurrence, 0-based
RECURSIVE IndexFrom(_, _, _)
IndexFrom(seq, x, i) == IF seq[i] = x THEN i - 1 ELSE IndexFrom(seq, x, i + 1)
index(seq, x) == IndexFrom(seq, x, 1)

InListNever(seq, x) == FALSE

\* x in seq
InList(seq, x) == \E i \in 1..Len(seq) : seq[i] = x

ResumeIndexFromStart(ids, last) == 0

ResumeIndexAtMarker(ids, last) ==
    IF last # NoId /\ InList(ids, last) THEN index(ids, last) ELSE 0

\* start_idx of main (lines 227-230): one past the persisted marker when it is
\* in site_ids
ResumeIndex(ids, last) ==
    IF last # NoId /\ InList(ids, last) THEN index(ids, last) + 1 ELSE 0

BreakerTripsLate(m) == m > Threshold

\* misses >= stop_after_consecutive_misses
BreakerTrips(m) == m >= Threshold

(***************************************************************************)
(* State.                                                                  *)
(***************************************************************************)
VARIABLES
    \* the disk
    files,          \* Paths -> FileStates
    nameMapFile,    \* site_name_map.json: slug -> display name
    progressFile,   \* progress.json last_site_id (NoId: file absent or null)
    \* main's position and locals
    pc,             \* "boot", "discover", "loop", "record", "stop", "done", "failed"
    name_map,
    progress,       \* progress["last_site_id"]
    misses,
    seen,
    stable_rounds,
    site_ids,
    last_site,
    idx,            \* 0-based index of the item the loop is at
    ok,
    \* observations (written, never read by the program)
    quiet,          \* consecutive reads so far that rendered no new identifier
    starved,        \* StableLimit reads in a row rendered nothing new while
                    \* identifiers of the universe were still unrendered
    cycles,         \* passes of the discovery loop so far
    called,         \* this run's pull_one_site calls: <<id, result>>
    call,           \* log of the pull_one_site call that has just returned
    refetched,      \* download_csv was once called for a file that was ok
    nmWrites,       \* writes of site_name_map.json by this run
    \* the pure functions on their own: argument, value, applications so far
    seconds,        \* fmt_seconds' argument, in units of 1/Fraction second
    text,           \* the string slugify_site_name is applied to / fmt_seconds returned
    applied

vars == <<files, nameMapFile, progressFile, pc, name_map, progress, misses, seen,
          stable_rounds, site_ids, last_site, idx, ok, quiet, starved, cycles, called,
          call, refetched, nmWrites, seconds, text, applied>>

pure == <<seconds, text, applied>>
\* the state of main and of the disk
program == <<files, nameMapFile, progressFile, pc, name_map, progress, misses, seen,
             stable_rounds, site_ids, last_site, idx, ok, quiet, starved, cycles,
             called, call, refetched, nmWrites>>
disk == <<files, nameMapFile, progressFile>>
discovery == <<seen, stable_rounds, quiet, starved, cycles>>

\* no pure function is being exercised
PureIdle == seconds = 0 /\ text = <<>> /\ applied = 0

EmptyMap == [k \in {} |-> <<>>]
NoCall == [id |-> NoId, name |-> NoName, navs |-> <<>>, dls |-> <<>>, saved |-> {}]

\* main lines 197-217 on the disk as it is: load the name map and the progress
\* marker, misses = 0
StartMain ==
    /\ pc' = "boot"
    /\ name_map' = nameMapFile
    /\ progress' = progressFile
    /\ misses' = 0
    /\ seen' = {}
    /\ stable_rounds' = 0
    /\ site_ids' = <<>>
    /\ last_site' = NoId
    /\ idx' = 0
    /\ ok' = FALSE
    /\ quiet' = 0
    /\ starved' = FALSE
    /\ cycles' = 0
    /\ called' = <<>>
    /\ call' = NoCall
    /\ nmWrites' = 0
    /\ UNCHANGED <<pure, disk, refetched>>

\* the locals of main after lines 197-217, before discovery
Started ==
    /\ pc = "boot"
    /\ name_map = nameMapFile
    /\ progress = progressFile
    /\ misses = 0
    /\ seen = {}
    /\ stable_rounds = 0
    /\ site_ids = <<>>
    /\ last_site = NoId
    /\ idx = 0
    /\ ok = FALSE
    /\ quiet = 0
    /\ starved = FALSE
    /\ cycles = 0
    /\ called = <<>>
    /\ call = NoCall
    /\ refetched = FALSE
    /\ nmWrites = 0

\* the first run, on an empty output directory
Init ==
    /\ files = [p \in Paths |-> "absent"]
    /\ nameMapFile = EmptyMap
    /\ progressFile = NoId
    /\ Started
    /\ PureIdle

\* get_all_site_ids lines 77-97: the page loads and the selection list opens
OpenList ==
    /\ pc = "boot"
    /\ pc' = "discover"
    /\ seen' = {}
    /\ stable_rounds' = 0
    /\ UNCHANGED <<pure, disk, name_map, progress, misses, site_ids, last_site, idx, ok,
                   quiet, starved, cycles, called, call, refetched, nmWrites>>

\* get_all_site_ids lines 78-81: a timeout there is not caught; main ends with
\* the exception, before any write
OpenListTimeout ==
    /\ pc = "boot"
    /\ pc' = "failed"
    /\ UNCHANGED <<pure, disk, discovery, name_map, progress, misses, site_ids, last_site,
                   idx, ok, called, call, refetched, nmWrites>>

\* one pass of the while loop, lines 99-121
ReadCycle ==
    /\ pc = "discover"
    /\ KeepReading(stable_rounds)
    /\ \E ids \in Reads :
       \E st \in {ReadStep([seen |-> seen, stable_rounds |-> stable_rounds], ids)} :
       \E q \in {IF \A j \in 1..Len(ids) : ids[j] \in seen THEN quiet + 1 ELSE 0} :
            /\ seen' = st.seen
            /\ stable_rounds' = st.stable_rounds
            /\ quiet' = q
            /\ starved' = (starved \/ (q >= StableLimit /\ st.seen # Universe))
    /\ cycles' = cycles + 1
    /\ UNCHANGED <<pure, disk, pc, name_map, progress, misses, site_ids, last_site, idx, ok,
                   called, call, refetched, nmWrites>>

\* lines 123-124 and 224-232: the loop has ended; return sorted(seen) and
\* compute the resume index
ReturnIds ==
    /\ pc = "discover"
    /\ ~KeepReading(stable_rounds)
    /\ site_ids' = sorted(seen)
    /\ last_site' = progress
    /\ idx' = ResumeIndex(sorted(seen), progress)
    /\ pc' = "loop"
    /\ UNCHANGED <<pure, disk, discovery, name_map, progress, misses, ok, called, call,
                   refetched, nmWrites>>

\* the reads of a list that renders some identifiers one per read, in some
\* order, and then nothing new
Schedules ==
    {[i \in 1..Len(s) |-> <<s[i]>>] :
        s \in {t \in UNION {[1..n -> Universe] : n \in 0..MaxId} :
                 \A i, j \in 1..Len(t) : i # j => t[i] # t[j]}}

\* lines 224-232 with get_all_site_ids as one step: the list opens, the while
\* loop runs to its end on some schedule of reads, the resume index is computed
GetAllSiteIds ==
    /\ pc = "boot"
    /\ \E sched \in Schedules :
       \E st \in {ReadLoop([seen |-> {}, stable_rounds |-> 0], sched)} :
            /\ seen' = st.seen
            /\ stable_rounds' = st.stable_rounds
            /\ site_ids' = sorted(st.seen)
            /\ idx' = ResumeIndex(sorted(st.seen), progress)
    /\ last_site' = progress
    /\ pc' = "loop"
    /\ UNCHANGED <<pure, disk, name_map, progress, misses, ok, quiet, starved, cycles,
                   called, call, refetched, nmWrites>>

\* the behaviours of the item's page: the first navigation times out, or the
\* selection label never shows, or it shows with a title and an inner text
PageBehaviours ==
    {[gotoOK |-> FALSE, selOK |-> FALSE, title |-> NoName, txt |-> <<>>],
     [gotoOK |-> TRUE, selOK |-> FALSE, title |-> NoName, txt |-> <<>>]}
        \cup {[gotoOK |-> TRUE, selOK |-> TRUE, title |-> l[1], txt |-> l[2]] :
                l \in PageLabels}

\* the kinds whose export page pull_one_site will navigate to
KindsToPull(fs, pg) ==
    IF ~pg.gotoOK \/ get_site_name(pg.selOK, pg.title, pg.txt) = NoName THEN {}
    ELSE {i \in 1..Len(SPECS) :
            ~file_ok(fs, out_path(i, SlugOf[get_site_name(pg.selOK, pg.title, pg.txt)]))}

\* line 258: ok = await pull_one_site(page, site_id, out_dir, name_map), each
\* kind's navigation and export ending in one of outcomes; the log of the
\* call is kept when keepLog
Pull(outcomes, keepLog) ==
    /\ pc = "loop"
    /\ idx < Len(site_ids)
    /\ \E pg \in PageBehaviours :
       \E out \in [KindsToPull(files, pg) -> outcomes] :
       \E r \in {pull_one_site(site_ids[idx + 1], files, name_map, pg.gotoOK,
                               pg.selOK, pg.title, pg.txt, out)} :
            /\ ok' = r.ok
            /\ name_map' = r.name_map
            /\ files' = r.files
            /\ call' = IF keepLog
                       THEN [id |-> site_ids[idx + 1], name |-> r.name, navs |-> r.navs,
                             dls |-> r.dls, saved |-> r.saved]
                       ELSE NoCall
            /\ refetched' = (refetched \/ r.refetch)
            /\ called' = Append(called, <<site_ids[idx + 1], r.ok>>)
    /\ pc' = "record"
    /\ UNCHANGED <<pure, nameMapFile, progressFile, discovery, progress, misses, site_ids,
                   last_site, idx, nmWrites>>

\* in the runs of main the two timeouts of download_csv, which leave the same
\* state, are one outcome, and the log of the call is not kept
RunOutcomes == KindOutcomes \ {"button_timeout"}

PullOneSite == Pull(RunOutcomes, FALSE)

RecordOutcomeNoReset ==
    /\ pc = "record"
    /\ \E m \in {IF ok THEN misses ELSE misses + 1} :
           /\ misses' = m
           /\ IF ~ok /\ BreakerTrips(m)
              THEN /\ pc' = "stop"
                   /\ UNCHANGED <<progress, progressFile, idx>>
              ELSE /\ pc' = "loop"
                   /\ progress' = site_ids[idx + 1]
                   /\ progressFile' = site_ids[idx + 1]
                   /\ idx' = idx + 1
    /\ call' = NoCall
    /\ UNCHANGED <<pure, files, nameMapFile, discovery, name_map, site_ids, last_site, ok,
                   called, refetched, nmWrites>>

\* lines 261-272: count the outcome, break on the threshold, else write
\* progress.json and go to the next item
RecordOutcome ==
    /\ pc = "record"
    /\ \E m \in {IF ok THEN 0 ELSE misses + 1} :
           /\ misses' = m
           /\ IF ~ok /\ BreakerTrips(m)
              THEN /\ pc' = "stop"
                   /\ UNCHANGED <<progress, progressFile, idx>>
              ELSE /\ pc' = "loop"
                   /\ progress' = site_ids[idx + 1]
                   /\ progressFile' = site_ids[idx + 1]
                   /\ idx' = idx + 1
    /\ call' = NoCall
    /\ UNCHANGED <<pure, files, nameMapFile, discovery, name_map, site_ids, last_site, ok,
                   called, refetched, nmWrites>>

FinalizeAfterFullLoop ==
    /\ pc = "loop" /\ ~(idx < Len(site_ids))
    /\ nameMapFile' = name_map
    /\ nmWrites' = nmWrites + 1
    /\ pc' = "done"
    /\ UNCHANGED <<pure, files, progressFile, discovery, name_map, progress, misses,
                   site_ids, last_site, idx, ok, called, call, refetched>>

\* lines 274-278: after the loop (exhausted or broken) write the name map
Finalize ==
    /\ \/ pc = "stop"
       \/ pc = "loop" /\ ~(idx < Len(site_ids))
    /\ nameMapFile' = name_map
    /\ nmWrites' = nmWrites + 1
    /\ pc' = "done"
    /\ UNCHANGED <<pure, files, progressFile, discovery, name_map, progress, misses,
                   site_ids, last_site, idx, ok, called, call, refetched>>

\* main is started again after a run that ended
Rerun ==
    /\ pc \in {"done", "failed"}
    /\ StartMain

\* the process is killed in the middle of a run and main is started again
Crash ==
    /\ pc \notin {"done", "failed"}
    /\ StartMain

\* one run after another, never killed
Run == OpenListTimeout \/ GetAllSiteIds \/ PullOneSite \/ RecordOutcome \/ Finalize
          \/ Rerun

Next == Run \/ Crash

Spec == Init /\ [][Next]_vars

(***************************************************************************)
(* One run of main that is not killed, on a disk that holds a name map: it *)
(* goes on until it ends, main being one sequential control flow whose     *)
(* waits are all bounded by timeouts.                                      *)
(***************************************************************************)
NameMaps ==
    {m \in UNION {[D -> SiteNames] : D \in SUBSET Slugs} :
        \A k \in DOMAIN m : SlugOf[m[k]] = k}

InitRun ==
    /\ files = [p \in Paths |-> "absent"]
    /\ nameMapFile \in NameMaps
    /\ progressFile = NoId
    /\ Started
    /\ PureIdle

RunOnce == OpenListTimeout \/ GetAllSiteIds \/ PullOneSite \/ RecordOutcome \/ Finalize

RunSpec == InitRun /\ [][RunOnce]_vars /\ WF_vars(RunOnce)

(***************************************************************************)
(* The discovery loop pass by pass.                                        *)
(***************************************************************************)
NextDiscovery == OpenList \/ OpenListTimeout \/ ReadCycle \/ ReturnIds

DiscoverySpec ==
    Init /\ [][NextDiscovery]_vars /\ WF_vars(ReadCycle) /\ WF_vars(ReturnIds)

(***************************************************************************)
(* One call of pull_one_site with its log, from any output directory and   *)
(* name map main can hold when it makes the call.                          *)
(***************************************************************************)
InitPull ==
    /\ files \in [Paths -> FileStates]
    /\ \E s \in Slugs : \A p \in Paths : p[2] # s => files[p] = "absent"
    /\ name_map \in NameMaps
    /\ nameMapFile = EmptyMap
    /\ progressFile = NoId
    /\ progress = NoId
    /\ pc = "loop"
    /\ misses = 0
    /\ seen = Universe
    /\ stable_rounds = StableLimit
    /\ site_ids = sorted(Universe)
    /\ last_site = NoId
    /\ idx = 0
    /\ ok = FALSE
    /\ quiet = 0
    /\ starved = FALSE
    /\ cycles = 0
    /\ called = <<>>
    /\ call = NoCall
    /\ refetched = FALSE
    /\ nmWrites = 0
    /\ PureIdle

PullLogged == Pull(KindOutcomes, TRUE)

PullSpec == InitPull /\ [][PullLogged]_vars

(***************************************************************************)
(* slugify_site_name on its own: applied to a string, then to its value.   *)
(***************************************************************************)
\* the characters of the strings given: a letter in both cases, a digit,
\* whitespace, "&", an apostrophe, punctuation, the underscore
Alphabet == {"A", "a", "1", " ", "&", "'", "!", "_"}
Strings == UNION {[1..n -> Alphabet] : n \in 0..MaxLen}

InitSlug ==
    /\ files = [p \in Paths |-> "absent"]
    /\ nameMapFile = EmptyMap
    /\ progressFile = NoId
    /\ Started
    /\ seconds = 0
    /\ text \in Strings
    /\ applied = 0

\* s = slugify_site_name(s)
Slugify ==
    /\ applied < MaxApplied
    /\ text' = slugify_site_name(text)
    /\ applied' = applied + 1
    /\ UNCHANGED <<program, seconds>>

SlugSpec == InitSlug /\ [][Slugify]_vars

(***************************************************************************)
(* fmt_seconds on its own, on every duration from below zero to            *)
(* MaxSeconds.                                                             *)
(***************************************************************************)
Durations == (0 - Fraction)..(MaxSeconds * Fraction + Fraction - 1)

InitFmt ==
    /\ files = [p \in Paths |-> "absent"]
    /\ nameMapFile = EmptyMap
    /\ progressFile = NoId
    /\ Started
    /\ seconds \in Durations
    /\ text = <<>>
    /\ applied = 0

\* text = fmt_seconds(seconds)
Format ==
    /\ applied = 0
    /\ text' = fmt_seconds(seconds)
    /\ applied' = 1
    /\ UNCHANGED <<program, seconds>>

FmtSpec == InitFmt /\ [][Format]_vars

(***************************************************************************)
(* The loop of main from any output directory and name map, with the log   *)
(* of each call: items whose names share a slug follow one another.        *)
(***************************************************************************)
NextLogged == PullLogged \/ RecordOutcome

LoopSpec == InitPull /\ [][NextLogged]_vars

(***************************************************************************)
(* Properties.                                                             *)
(***************************************************************************)
\* the identifiers pull_one_site was called on in this run, in call order
CalledIds == [i \in 1..Len(called) |-> called[i][1]]

\* the step in which a call of pull_one_site returns
PullReturns == pc = "loop" /\ pc' = "record"

\* position (1-based) of the marker loaded at INIT in the discovered sequence,
\* 0 when there is no marker or it is not in the sequence
MarkerPos ==
    IF \E k \in 1..Len(site_ids) : site_ids[k] = last_site
    THEN CHOOSE k \in 1..Len(site_ids) : site_ids[k] = last_site
    ELSE 0

\* number of failed calls at the end of this run's calls
RECURSIVE TrailingFailures(_)
TrailingFailures(cs) ==
    IF cs = <<>> \/ cs[Len(cs)][2] THEN 0
    ELSE 1 + TrailingFailures(SubSeq(cs, 1, Len(cs) - 1))

\* C1: after every item attempt of main's loop, the failure on which the
\* miss counter reaches the threshold included, progress.json names that
\* item before the loop continues or stops.
C1_ProgressAfterEveryAttempt ==
    (pc \in {"loop", "stop", "done"} /\ called # <<>>)
        => progressFile = called[Len(called)][1]

\* C2 as stated: a run that ends has called pull_one_site on exactly the
\* elements after the marker's position, each once, in ascending order (on
\* all elements when there is no marker or it is not in the sequence).
C2_AllAfterMarker ==
    pc = "done" => CalledIds = SubSeq(site_ids, MarkerPos + 1, Len(site_ids))

\* C2 amended: at every point of a run the calls of pull_one_site are, in
\* order and each once, the elements K+1, K+2, ... of the discovered sequence,
\* K the marker's position (0 without a usable marker); a run that ends
\* without the circuit breaker having stopped it has called all of K+1..end.
C2_ResumeOrder ==
    pc \in {"loop", "record", "stop", "done"} =>
        /\ MarkerPos + Len(called) <= Len(site_ids)
        /\ CalledIds = SubSeq(site_ids, MarkerPos + 1, MarkerPos + Len(called))
        /\ (pc = "done" /\ TrailingFailures(called) < Threshold)
              => CalledIds = SubSeq(site_ids, MarkerPos + 1, Len(site_ids))

\* a run resumed after the first of three discovered identifiers has ended
\* after calling the second and the third
C2_Witness ==
    /\ pc = "done"
    /\ Len(site_ids) = 3
    /\ last_site = site_ids[1]
    /\ CalledIds = <<site_ids[2], site_ids[3]>>

\* C3: circuit breaker.  The loop is never at an item with Threshold failed
\* calls in a row behind it; once it has stopped, the last call of the run is
\* the one that tripped it and no later identifier is called; the name map
\* changes only in a step in which a call returns, and progress.json only
\* to the identifier of the last call.
C3_CircuitBreaker ==
    /\ [](pc = "loop" => TrailingFailures(called) < Threshold)
    /\ []((pc \in {"record", "stop", "done"} /\ TrailingFailures(called) >= Threshold)
            => /\ Len(called) = idx + 1 - MarkerPos
               /\ called[Len(called)][1] = site_ids[idx + 1]
               /\ \A j \in (idx + 2)..Len(site_ids) :
                    \A c \in 1..Len(called) : called[c][1] # site_ids[j])
    /\ [][pc = "stop" => (pc' \in {"done", "boot"} /\ files' = files
                            /\ progressFile' = progressFile)]_vars
    /\ [][(name_map' # name_map /\ pc' # "boot") => PullReturns]_vars
    /\ [][progressFile' # progressFile
            => (called' # <<>> /\ progressFile' = called'[Len(called')][1])]_vars

\* the breaker has stopped the run at its second item, a third one left uncalled
C3_Witness ==
    /\ pc = "stop"
    /\ Len(called) = Threshold
    /\ TrailingFailures(called) = Threshold
    /\ idx + 1 < Len(site_ids)

\* is seq ascending without duplicates
Ascending(seq) == \A i, j \in 1..Len(seq) : i < j => seq[i] < seq[j]

Range(seq) == {seq[i] : i \in 1..Len(seq)}

\* C4 as stated: whatever the order and pacing in which the list renders the
\* universe, get_all_site_ids returns exactly the universe, ascending.
C4_ReturnsUniverse ==
    pc = "loop" => (Range(site_ids) = Universe /\ Ascending(site_ids))

\* C4 amended: get_all_site_ids returns, ascending and without duplicates,
\* identifiers of the universe; it returns all of them provided the list never
\* went StableLimit reads in a row without rendering a new identifier while
\* some were still unrendered.
C4_Discovery ==
    pc = "loop" =>
        /\ Ascending(site_ids)
        /\ Range(site_ids) = seen
        /\ seen \subseteq Universe
        /\ (~starved => Range(site_ids) = Universe)

\* the whole universe was returned although some reads rendered nothing new
\* before more entries appeared
C4_Witness ==
    /\ pc = "loop"
    /\ ~starved
    /\ Range(site_ids) = Universe
    /\ cycles >= MaxId + StableLimit + 2

\* C5: in every pass stable_rounds becomes stable_rounds + 1 when the pass
\* adds no identifier to seen and 0 when it adds one; no pass is made once it
\* has reached StableLimit and the loop is left with it equal to StableLimit;
\* the loop makes at most StableLimit passes per identifier seen plus
\* StableLimit, and it always ends.
C5_Termination ==
    /\ [][cycles' = cycles + 1 =>
            /\ stable_rounds < StableLimit
            /\ stable_rounds' = IF seen' = seen THEN stable_rounds + 1 ELSE 0]_vars
    /\ [](stable_rounds <= StableLimit)
    /\ [](pc = "loop" => stable_rounds = StableLimit)
    /\ [](cycles <= StableLimit * Cardinality(seen) + stable_rounds)
    /\ (pc = "discover") ~> (pc = "loop")

\* the longest discovery: every identifier appeared after StableLimit - 1
\* reads without growth
C5_Witness ==
    /\ pc = "loop"
    /\ seen = Universe
    /\ cycles = StableLimit * (MaxId + 1)

\* every artifact file of slug exists with data
AllData(fs, slug) == \A i \in 1..Len(SPECS) : fs[<<SPECS[i], slug>>] = "data"

\* the URLs of the artifact kinds for item id
KindUrls(id) == {<<SPECS[i], id>> : i \in 1..Len(SPECS)}

\* number of navigations of the logged call c to url
NavCount(c, url) == Cardinality({n \in 1..Len(c.navs) : c.navs[n] = url})

\* number of navigations of the logged call c to its item's kind URLs
KindNavs(c) == Cardinality({n \in 1..Len(c.navs) : c.navs[n] \in KindUrls(c.id)})

\* C6 as stated: for an item (its page loaded, its name read) whose artifact
\* files all exist non-empty, pull_one_site returns true with no navigation
\* at all to the item's kind URLs and no download.
C6_NoNavigationAtAll ==
    [][(PullReturns /\ call'.name # NoName /\ AllData(files, SlugOf[call'.name]))
         => (ok' /\ KindNavs(call') = 0 /\ call'.dls = <<>>)]_vars

\* C6 amended: for such an item pull_one_site returns true after the one
\* navigation that loads the item's page to read its name, which is the URL of
\* the first artifact kind, with no further navigation, no download and no
\* file changed.
C6_Skip ==
    [][(PullReturns /\ call'.name # NoName /\ AllData(files, SlugOf[call'.name]))
         => /\ ok'
            /\ call'.navs = <<<<SPECS[1], call'.id>>>>
            /\ call'.dls = <<>>
            /\ call'.saved = {}
            /\ files' = files]_vars

\* a call has returned for an item whose files were all there: nothing saved
C6_Witness ==
    /\ pc = "record"
    /\ call.name # NoName
    /\ AllData(files, SlugOf[call.name])
    /\ call.saved = {}
    /\ ok

\* C7: when the page loads and the name resolves, pull_one_site returns true
\* iff for some kind the file existed with data or was saved by this call; it
\* returns false exactly when no kind's file had data and every kind's export
\* page was navigated to without a file being saved.
C7_OkIffAnyKind ==
    [][(PullReturns /\ call'.name # NoName) =>
         LET slug == SlugOf[call'.name]
             had(i) == files[<<SPECS[i], slug>>] = "data"
             got(i) == <<SPECS[i], slug>> \in call'.saved
             tried(i) == NavCount(call', <<SPECS[i], call'.id>>)
                            = (IF i = 1 THEN 2 ELSE 1)
         IN  /\ ok' <=> \E i \in 1..Len(SPECS) : had(i) \/ got(i)
             /\ ~ok' <=> \A i \in 1..Len(SPECS) : ~had(i) /\ tried(i) /\ ~got(i)
             /\ \A i \in 1..Len(SPECS) :
                  got(i) => (~had(i) /\ files'[<<SPECS[i], slug>>] = "data")]_vars

\* a call returned true with one kind saved and the two others failed
C7_Witness ==
    /\ pc = "record"
    /\ ok
    /\ call.name # NoName
    /\ Cardinality(call.saved) = 1
    /\ Len(call.navs) = 1 + Len(SPECS)
    /\ Cardinality({i \in 1..Len(SPECS) :
                      files[<<SPECS[i], SlugOf[call.name]>>] = "data"}) = 1

\* C8: when the name read normalizes to the empty slug, pull_one_site returns
\* false, leaves the name map as it was and makes no export navigation and no
\* download.
C8_EmptySlugFails ==
    [][(PullReturns /\ call'.name # NoName /\ slugify_site_name(call'.name) = <<>>)
         => /\ ~ok'
            /\ name_map' = name_map
            /\ Len(call'.navs) = 1
            /\ call'.dls = <<>>]_vars

\* every entry of map m is in map n, unchanged
Extends(n, m) == \A k \in DOMAIN m : k \in DOMAIN n /\ n[k] = m[k]

\* C9: once discovery has returned, a run that is not killed ends with
\* site_name_map.json written, after a full loop and after a circuit break
\* alike; it is written once, in the run's last step, as the name map held
\* then, which has every entry loaded at INIT and every entry recorded since.
C9_NameMapWritten ==
    /\ (pc = "loop") ~> (pc = "done")
    /\ [](nmWrites = IF pc = "done" THEN 1 ELSE 0)
    /\ [](pc = "boot" => name_map = nameMapFile)
    /\ [][Extends(name_map', name_map)]_vars
    /\ [][IF pc' = "done"
          THEN /\ pc \in {"loop", "stop"}
               /\ nameMapFile' = name_map
               /\ Extends(nameMapFile', nameMapFile)
          ELSE nameMapFile' = nameMapFile]_vars

\* a run stopped by the circuit breaker after a first successful item has
\* written a name map of two entries
C9_Witness ==
    /\ pc = "done"
    /\ nmWrites = 1
    /\ Len(called) = 1 + Threshold
    /\ called[1][2]
    /\ TrailingFailures(called) = Threshold
    /\ Cardinality(DOMAIN nameMapFile) = 2

\* C10: over all runs, kills and restarts, download_csv is never called for
\* a file that exists with data at that moment, and a file with data keeps it.
C10_NoRefetch ==
    /\ [](~refetched)
    /\ [][\A p \in Paths : files[p] = "data" => files'[p] = "data"]_vars

\* in a resumed run two calls in a row returned true with one file in all on
\* the disk: the second call found that file, pulled the slug's missing kinds
\* without success and left the file alone
C10_Witness ==
    /\ pc = "record"
    /\ last_site # NoId
    /\ Len(called) = 2
    /\ called[1][2] /\ called[2][2]
    /\ Cardinality({p \in Paths : files[p] = "data"}) = 1
    /\ ~refetched


\* C11: is_site_complete is monotonic under the program's own steps: in no
\* step of any run (a call of pull_one_site for any item, a kill, a restart)
\* does a slug for which is_site_complete is true become one for which it is
\* false.
C11_CompleteStaysComplete ==
    [][\A s \in Slugs : is_site_complete(files, s) => is_site_complete(files', s)]_vars

\* slug "a" is complete and the one call of this run, which has returned, was
\* for an item of the other slug (recorded by this run, not in the persisted
\* name map), one of whose files is on the disk
C11_Witness ==
    /\ pc = "record"
    /\ Len(called) = 1
    /\ is_site_complete(files, <<"a">>)
    /\ <<>> \notin DOMAIN nameMapFile
    /\ <<>> \in DOMAIN name_map
    /\ \E i \in 1..Len(SPECS) : files[out_path(i, <<>>)] = "data"


\* C12: slugify_site_name applied to its own output is a no-op: every
\* application after the first leaves the string as it is.
C12_Idempotent ==
    [][applied >= 1 => text' = text]_vars

\* "A&1" has become "a_and_1" and stayed so under the second application
C12_Witness ==
    /\ applied = 2
    /\ text = <<"a", "_", "a", "n", "d", "_", "1">>


\* the number a sequence of digit characters denotes
RECURSIVE Num(_)
Num(ds) ==
    IF ds = <<>> THEN 0
    ELSE 10 * Num(SubSeq(ds, 1, Len(ds) - 1))
            + ((CHOOSE d \in 1..10 : DigitChars[d] = ds[Len(ds)]) - 1)

\* ds is a number written in digits
IsNum(ds) == ds # <<>> /\ \A i \in 1..Len(ds) : \E d \in 1..10 : DigitChars[d] = ds[i]

\* ds is a number written without leading zeros
IsPlain(ds) == IsNum(ds) /\ (Len(ds) > 1 => ds[1] # "0")

\* position of character c in string s, 0 when it is not there
PosOf(s, c) == IF \E i \in 1..Len(s) : s[i] = c
               THEN CHOOSE i \in 1..Len(s) : s[i] = c ELSE 0

\* C13: fmt_seconds renders a duration of zero or less as "0s" and otherwise
\* the whole seconds w as "<w>s" below a minute, "<m>m<ss>s" below an hour and
\* "<h>h<mm>m<ss>s" from an hour on, the leading unit without leading zeros
\* and the units below it in two digits; 65 gives "1m05s" and 3661 "1h01m01s".
C13_FmtSeconds ==
    applied = 1 =>
        LET w == IF seconds <= 0 THEN 0 ELSE seconds \div Fraction
            n == Len(text)
            ph == PosOf(text, "h")
            pm == PosOf(text, "m")
        IN  /\ seconds <= 0 => text = <<"0", "s">>
            /\ n >= 2 /\ text[n] = "s"
            /\ w < 60 =>
                 /\ ph = 0 /\ pm = 0
                 /\ IsPlain(SubSeq(text, 1, n - 1))
                 /\ Num(SubSeq(text, 1, n - 1)) = w
            /\ (w >= 60 /\ w < 3600) =>
                 /\ ph = 0 /\ pm = n - 3
                 /\ IsPlain(SubSeq(text, 1, pm - 1))
                 /\ Num(SubSeq(text, 1, pm - 1)) = w \div 60
                 /\ IsNum(SubSeq(text, pm + 1, n - 1))
                 /\ Num(SubSeq(text, pm + 1, n - 1)) = w % 60
            /\ w >= 3600 =>
                 /\ ph = n - 6 /\ pm = n - 3
                 /\ IsPlain(SubSeq(text, 1, ph - 1))
                 /\ Num(SubSeq(text, 1, ph - 1)) = w \div 3600
                 /\ IsNum(SubSeq(text, ph + 1, pm - 1))
                 /\ Num(SubSeq(text, ph + 1, pm - 1)) = (w % 3600) \div 60
                 /\ IsNum(SubSeq(text, pm + 1, n - 1))
                 /\ Num(SubSeq(text, pm + 1, n - 1)) = w % 60
            /\ seconds = 0 => text = <<"0", "s">>
            /\ seconds = 65 * Fraction => text = <<"1", "m", "0", "5", "s">>
            /\ seconds = 3661 * Fraction
                 => text = <<"1", "h", "0", "1", "m", "0", "1", "s">>

\* 3661 seconds have been rendered as "1h01m01s"
C13_Witness ==
    /\ applied = 1
    /\ seconds = 3661 * Fraction
    /\ text = <<"1", "h", "0", "1", "m", "0", "1", "s">>


\* the marker names none of the items the loop is at or has still to reach
MarkerBehind ==
    pc \in {"loop", "record"} =>
        \A j \in (idx + 1)..Len(site_ids) : site_ids[j] # progressFile

\* progress.json is written only once a call of pull_one_site has returned,
\* and then names that call's item
MarkerWrittenAfterReturn ==
    progressFile' # progressFile =>
        /\ pc = "record"
        /\ called # <<>>
        /\ called' = called
        /\ progressFile' = called[Len(called)][1]

\* C14 as stated: the persisted marker is null or names an item whose call
\* has returned, never an item not yet attempted or in progress, and within
\* one run every change of it is to a greater identifier.
C14_MarkerOnlyForward ==
    /\ []MarkerBehind
    /\ [][MarkerWrittenAfterReturn]_vars
    /\ [][progressFile' # progressFile => progressFile' > progressFile]_vars

\* C14 amended: as stated, but within one run the identifiers written are
\* ascending and the first of them is greater than the marker loaded at INIT
\* when that marker is in the discovered sequence; when it is not, the run
\* starts at the first element and its first write can lower the marker.
C14_MarkerValid ==
    /\ []MarkerBehind
    /\ [][MarkerWrittenAfterReturn]_vars
    /\ [][(progressFile' # progressFile
             /\ (Len(called) > 1 \/ InList(site_ids, last_site)))
            => progressFile' > progressFile]_vars

\* a run resumed after the first of three identifiers has moved the marker to
\* the third, whose call failed
C14_Witness ==
    /\ pc = "loop"
    /\ Len(site_ids) = 3
    /\ last_site = site_ids[1]
    /\ Len(called) = 2
    /\ ~called[2][2]
    /\ progressFile = site_ids[3]


\* C15: Name Map first-writer-wins.  A call of pull_one_site that resolves a
\* name leaves every entry the map had, loaded or recorded, as it was; the
\* only key it can add is the slug of that name, with that name, and only
\* when the slug was not a key, so a slug several names normalize to keeps
\* the name first recorded.
C15_FirstWriterWins ==
    [][(PullReturns /\ call'.name # NoName) =>
         LET s == SlugOf[call'.name]
         IN  /\ Extends(name_map', name_map)
             /\ DOMAIN name_map' = DOMAIN name_map \cup {s}
             /\ s \notin DOMAIN name_map => name_map'[s] = call'.name]_vars

\* a call has read the name "a'" for an item whose slug "a" the map held
\* under the name "A", and the map still says "A"
C15_Witness ==
    /\ pc = "record"
    /\ call.name = <<"a", "'">>
    /\ <<"a">> \in DOMAIN name_map
    /\ name_map[<<"a">>] = <<"A">>


\* C16: per-kind failure isolation.  In a call that resolves a name and does
\* not skip, every kind whose file is not ok is navigated to, whatever became
\* of the kinds before it, every kind whose file is not there afterwards has
\* still let the later kinds be tried, and the call returns a boolean.
C16_KindFailureIsolated ==
    [][(PullReturns /\ call'.name # NoName
          /\ ~is_site_complete(files, SlugOf[call'.name])) =>
         /\ ok' \in BOOLEAN
         /\ \A i \in 1..Len(SPECS) :
              ~file_ok(files, out_path(i, SlugOf[call'.name]))
                 => NavCount(call', <<SPECS[i], call'.id>>) = (IF i = 1 THEN 2 ELSE 1)]_vars

\* the first two kinds failed, one at its navigation and one in download_csv,
\* and the third was still tried and saved
C16_Witness ==
    /\ pc = "record"
    /\ ok
    /\ call.name # NoName
    /\ Len(call.navs) = 1 + Len(SPECS)
    /\ Len(call.dls) = 2
    /\ call.saved = {out_path(3, SlugOf[call.name])}
    /\ files[out_path(1, SlugOf[call.name])] = "absent"
    /\ files[out_path(2, SlugOf[call.name])] = "absent"


\* C17: when the item's page does not load or no name can be read from it,
\* pull_one_site returns false after its one navigation to the item's page,
\* with no export navigation, no download, no file created or changed and
\* the name map as it was.
C17_NoNameNoEffect ==
    [][(PullReturns /\ call'.name = NoName) =>
         /\ ~ok'
         /\ call'.navs = <<<<SPECS[1], call'.id>>>>
         /\ call'.dls = <<>>
         /\ call'.saved = {}
         /\ files' = files
         /\ name_map' = name_map]_vars

\* a call for an item with files missing has returned false without a name
C17_Witness ==
    /\ pc = "record"
    /\ ~ok
    /\ call.id # NoId
    /\ call.name = NoName
    /\ \E p \in Paths : files[p] # "data"
    /\ name_map = EmptyMap


\* C18: the miss counter is 0 when a run starts and is, after every item, the
\* number of failed calls at the end of this run's calls (0 after a success,
\* one more after a failure); the loop is stopped only when the last
\* Threshold calls of this run all failed.
C18_MissCounter ==
    /\ [](pc = "boot" => misses = 0)
    /\ [](pc \in {"loop", "stop", "done"} => misses = TrailingFailures(called))
    /\ [](pc = "record"
            => misses = TrailingFailures(SubSeq(called, 1, Len(called) - 1)))
    /\ [](pc = "stop" => (Len(called) >= Threshold
                            /\ TrailingFailures(called) = Threshold))
    /\ [][pc' = "stop" => (pc = "record" /\ ~ok /\ misses' = misses + 1)]_vars

\* a run went through three items, the first and the third failed with a
\* success between them, and the breaker did not trip
C18_Witness ==
    /\ pc = "done"
    /\ Len(called) = 3
    /\ ~called[1][2]
    /\ called[2][2]
    /\ ~called[3][2]
    /\ misses = 1


\* C19: failed items are not retried.  A run that has ended without the
\* circuit breaker having stopped it leaves progress.json at the last
\* discovered identifier; a run whose discovered sequence holds the marker it
\* loaded calls pull_one_site only on greater identifiers, and on none when
\* the marker is the last of the sequence.
C19_NoRetry ==
    /\ (pc = "done" /\ site_ids # <<>> /\ TrailingFailures(called) < Threshold)
          => progressFile = site_ids[Len(site_ids)]
    /\ (pc \in {"loop", "record", "stop", "done"} /\ last_site \in Range(site_ids))
          => \A c \in 1..Len(called) : called[c][1] > last_site
    /\ (pc \in {"loop", "record", "stop", "done"} /\ site_ids # <<>>
          /\ last_site = site_ids[Len(site_ids)])
          => called = <<>>

\* a run that found the marker at the last of three identifiers has ended
\* without a call, although no artifact file is on the disk
C19_Witness ==
    /\ pc = "done"
    /\ Len(site_ids) = 3
    /\ last_site = site_ids[3]
    /\ called = <<>>
    /\ \A p \in Paths : files[p] = "absent"


\* C20: slug collision.  When a call reads a name whose slug the name map
\* holds under another name: if the slug's files all have data the call
\* returns true with no download and no file changed, and that success sets
\* the miss counter to 0; if only some have data, these are kept and not
\* downloaded again, and each kind without data is pulled from this item.
C20_SlugCollision ==
    /\ [][(PullReturns /\ call'.name # NoName
             /\ SlugOf[call'.name] \in DOMAIN name_map
             /\ name_map[SlugOf[call'.name]] # call'.name) =>
            LET slug == SlugOf[call'.name]
            IN  /\ name_map' = name_map
                /\ AllData(files, slug) =>
                     (ok' /\ call'.dls = <<>> /\ call'.saved = {} /\ files' = files)
                /\ ~AllData(files, slug) =>
                     \A i \in 1..Len(SPECS) :
                        /\ files[out_path(i, slug)] = "data" =>
                             /\ files'[out_path(i, slug)] = "data"
                             /\ out_path(i, slug) \notin Range(call'.dls)
                        /\ files[out_path(i, slug)] # "data" =>
                             NavCount(call', <<SPECS[i], call'.id>>)
                                = (IF i = 1 THEN 2 ELSE 1)]_vars
    /\ [][(pc = "record" /\ ok /\ call.name # NoName
             /\ name_map[SlugOf[call.name]] # call.name)
            => (misses' = 0 /\ pc' = "loop")]_vars

\* after a failed item, a second item named "a'" found the files of slug "a"
\* complete under the name "A": its call returned true without a download
C20_Witness ==
    /\ pc = "record"
    /\ Len(called) = 2
    /\ ~called[1][2]
    /\ misses = 1
    /\ ok
    /\ call.name = <<"a", "'">>
    /\ name_map[<<"a">>] = <<"A">>
    /\ AllData(files, <<"a">>)
    /\ call.dls = <<>>

====
